---- MODULE Spec2Model ----
(***************************************************************************)
(* Verification model of hdd-rs:                                           *)
(*   - the query sequencer of the command line tool (cli/src/main.rs),     *)
(*   - the Linux device enumerator (src/device/linux.rs, list_devices),    *)
(*   - the vendor attribute option-stream parser                           *)
(*     (src/smart/drivedb/presets.rs, parse and parse_vendor_attribute).   *)
(* Each part has its own specification: SpecQuery, SpecList, SpecParse.    *)
(***************************************************************************)
EXTENDS Integers, Sequences, FiniteSets, TLC

VARIABLES
    \* ---- query sequencer (cli/src/main.rs, main) ----
    pc,            \* position of main
    print_info,    \* args: --info or --all
    print_attrs,   \* args: --attrs or --all
    print_health,  \* args: --health or --all
    use_json,      \* args: --json
    smart,         \* id.smart decoded from the identification response
    issued,        \* commands handed to the executor, in order
    stdout,        \* what was printed on standard output, in order
    stderr,        \* notices written by warn(), in order
    json_map,      \* keys inserted into json_map
    \* ---- device enumerator (src/device/linux.rs, list_devices) ----
    block_root_ok,   \* host: whether /sys/class/block can be listed
    generic_root_ok, \* host: whether /sys/class/scsi_generic can be listed
    block_dir,     \* host: entries of /sys/class/block, in traversal order
    generic_dir,   \* host: entries of /sys/class/scsi_generic, in traversal order
    idx,           \* position of the running for loop in its directory
    devices,       \* let mut devices = vec![]
    skip_generics, \* let mut skip_generics = HashSet::new()
    result,        \* what list_devices returned
    \* ---- option-stream parser (src/smart/drivedb/presets.rs, parse) ----
    line,          \* the argument of parse, as characters
    args,          \* the tokens the iterator args has still to yield
    output,        \* let mut output = Preset::new()
    parsed,        \* what parse returned
    \* ---- backend selection (cli/src/main.rs, main) ----
    target_os,     \* cfg!(target_os): the system the program is built for
    dev_type,      \* command line: the value of -d/--device, if any
    device,        \* command line: the positional argument, the device to query
    backend,       \* the pair (exec, task) main has selected
    \* ---- attribute classification (cli/src/main.rs, print_attributes) ----
    attr_val,      \* val, the attribute being printed: value, worst, thresh
    fail           \* the text of the fail column

qvars == <<print_info, print_attrs, print_health, use_json, smart,
           issued, stdout, stderr, json_map>>
lvars == <<block_root_ok, generic_root_ok, block_dir, generic_dir, idx, devices, skip_generics, result>>
pvars == <<line, args, output, parsed>>
bvars == <<target_os, dev_type, device, backend>>
avars == <<attr_val, fail>>
vars == <<pc, qvars, lvars, pvars, bvars, avars>>

(***************************************************************************)
(* Query sequencer                                                         *)
(***************************************************************************)

\* id::Ternary
Ternary == {"Unsupported", "Disabled", "Enabled"}

\* Result<_, std::io::Error> of an executor call, as far as main looks at it
ExecResults == {"Ok", "Err"}

\* the commands main hands to exec / task
CmdIdentify == "Identify"
CmdReturnStatus == "SMART ReturnStatus"
CmdReadValues == "SMART ReadValues"
CmdReadThresholds == "SMART ReadThresholds"

HealthCommands == {CmdReturnStatus}
AttrsCommands == {CmdReadValues, CmdReadThresholds}

\* the action_name arguments of when_smart_enabled
HealthName == "health status"
AttrsName == "attributes"

\* fn warn(msg): the message goes to stderr
Warn(msg) == Append(stderr, msg)

\* WhenSmartEnabled with a fault: a disabled feature is queried all the same
WhenSmartEnabledQueriesDisabled(status, action_name) ==
    CASE status = "Unsupported" ->
            [run |-> FALSE, msg |-> <<"S.M.A.R.T. is not supported, cannot show", action_name>>]
      [] status = "Disabled" -> [run |-> TRUE, msg |-> <<>>]
      [] status = "Enabled" -> [run |-> TRUE, msg |-> <<>>]

\* fn when_smart_enabled(status, action_name, action): whether the action runs,
\* and the message that is warned otherwise
WhenSmartEnabled(status, action_name) ==
    CASE status = "Unsupported" ->
            [run |-> FALSE, msg |-> <<"S.M.A.R.T. is not supported, cannot show", action_name>>]
      [] status = "Disabled" ->
            [run |-> FALSE, msg |-> <<"S.M.A.R.T. is disabled, cannot show", action_name>>]
      [] status = "Enabled" -> [run |-> TRUE, msg |-> <<>>]

\* NeedsQuery with a fault: --health alone does not start the query
NeedsQueryForgetsHealth(info, attrs, health) == info \/ attrs

\* the condition of main's outer if: some report section is requested
NeedsQuery(info, attrs, health) == info \/ attrs \/ health

\* Option<T>: None and Some(x)
None == <<>>
Some(x) == <<x>>

\* no backend is being selected
IdleBackend ==
    /\ target_os = "linux"
    /\ dev_type = None
    /\ device = None
    /\ backend = "none"

\* no attribute is being classified
IdleClassify ==
    /\ attr_val = [value |-> None, worst |-> None, thresh |-> None]
    /\ fail = ""

\* the option-stream parser is not running
IdleParse ==
    /\ line = <<>>
    /\ args = <<>>
    /\ output = <<>>
    /\ parsed = [kind |-> "none", table |-> <<>>]

\* the enumerator is not running
IdleList ==
    /\ block_root_ok = TRUE
    /\ generic_root_ok = TRUE
    /\ block_dir = <<>>
    /\ generic_dir = <<>>
    /\ idx = 0
    /\ devices = <<>>
    /\ skip_generics = {}
    /\ result = [kind |-> "none", paths |-> <<>>]

InitQuery ==
    /\ pc = "start"
    /\ print_info \in BOOLEAN
    /\ print_attrs \in BOOLEAN
    /\ print_health \in BOOLEAN
    /\ use_json \in BOOLEAN
    /\ smart = "unknown"
    /\ issued = <<>>
    /\ stdout = <<>>
    /\ stderr = <<>>
    /\ json_map = {}
    /\ IdleList
    /\ IdleParse
    /\ IdleBackend
    /\ IdleClassify

\* if print_info || print_attrs || print_health { ... }
Start ==
    /\ pc = "start"
    /\ pc' = IF NeedsQuery(print_info, print_attrs, print_health) THEN "identify" ELSE "done"
    /\ UNCHANGED <<print_info, print_attrs, print_health, use_json, smart,
                   issued, stdout, stderr, json_map>>
    /\ UNCHANGED <<lvars, pvars, bvars, avars>>

\* let data = exec(&file, ata::Command::Identify, 1, 0, 1).unwrap();
\* let id = id::parse_id(&data);
Identify ==
    /\ pc = "identify"
    /\ issued' = Append(issued, CmdIdentify)
    /\ \E res \in ExecResults :
         IF res = "Err"
         THEN /\ pc' = "panicked"
              /\ smart' = smart
         ELSE /\ pc' = "info"
              /\ smart' \in Ternary
    /\ UNCHANGED <<print_info, print_attrs, print_health, use_json,
                   stdout, stderr, json_map>>
    /\ UNCHANGED <<lvars, pvars, bvars, avars>>

\* if print_info { if use_json { json_map.insert("info", ..) } else { print_id(..) } }
Info ==
    /\ pc = "info"
    /\ pc' = "health"
    /\ IF print_info
       THEN IF use_json
            THEN /\ json_map' = json_map \cup {"info"}
                 /\ stdout' = stdout
            ELSE /\ stdout' = Append(stdout, "info")
                 /\ json_map' = json_map
       ELSE UNCHANGED <<stdout, json_map>>
    /\ UNCHANGED <<print_info, print_attrs, print_health, use_json, smart,
                   issued, stderr>>
    /\ UNCHANGED <<lvars, pvars, bvars, avars>>

\* if print_health { when_smart_enabled(&id.smart, "health status", || { task(..).unwrap(); .. }) }
Health ==
    /\ pc = "health"
    /\ IF print_health
       THEN LET w == WhenSmartEnabled(smart, HealthName) IN
            IF w.run
            THEN /\ issued' = Append(issued, CmdReturnStatus)
                 /\ stderr' = stderr
                 /\ \E res \in ExecResults :
                      IF res = "Err"
                      THEN /\ pc' = "panicked"
                           /\ UNCHANGED <<stdout, json_map>>
                      ELSE /\ pc' = "attrs_values"
                           /\ IF use_json
                              THEN /\ json_map' = json_map \cup {"health"}
                                   /\ stdout' = stdout
                              ELSE /\ stdout' = Append(stdout, "health")
                                   /\ json_map' = json_map
            ELSE /\ stderr' = Warn(w.msg)
                 /\ pc' = "attrs_values"
                 /\ UNCHANGED <<issued, stdout, json_map>>
       ELSE /\ pc' = "attrs_values"
            /\ UNCHANGED <<issued, stdout, stderr, json_map>>
    /\ UNCHANGED <<print_info, print_attrs, print_health, use_json, smart>>
    /\ UNCHANGED <<lvars, pvars, bvars, avars>>

\* if print_attrs { when_smart_enabled(&id.smart, "attributes", || {
\*     let data = exec(.. ReadValues ..).unwrap();
AttrsValues ==
    /\ pc = "attrs_values"
    /\ IF print_attrs
       THEN LET w == WhenSmartEnabled(smart, AttrsName) IN
            IF w.run
            THEN /\ issued' = Append(issued, CmdReadValues)
                 /\ stderr' = stderr
                 /\ \E res \in ExecResults :
                      pc' = IF res = "Err" THEN "panicked" ELSE "attrs_thresh"
            ELSE /\ stderr' = Warn(w.msg)
                 /\ pc' = "json"
                 /\ issued' = issued
       ELSE /\ pc' = "json"
            /\ UNCHANGED <<issued, stderr>>
    /\ UNCHANGED <<print_info, print_attrs, print_health, use_json, smart,
                   stdout, json_map>>
    /\ UNCHANGED <<lvars, pvars, bvars, avars>>

\*     let thresh = exec(.. ReadThresholds ..).unwrap();
\*     let values = attr::parse_smart_values(..);
\*     if use_json { json_map.insert("attributes", ..) } else { print_attributes(&values) }
AttrsThresholds ==
    /\ pc = "attrs_thresh"
    /\ issued' = Append(issued, CmdReadThresholds)
    /\ \E res \in ExecResults :
         IF res = "Err"
         THEN /\ pc' = "panicked"
              /\ UNCHANGED <<stdout, json_map>>
         ELSE /\ pc' = "json"
              /\ IF use_json
                 THEN /\ json_map' = json_map \cup {"attributes"}
                      /\ stdout' = stdout
                 ELSE /\ stdout' = Append(stdout, "attributes")
                      /\ json_map' = json_map
    /\ UNCHANGED <<print_info, print_attrs, print_health, use_json, smart, stderr>>
    /\ UNCHANGED <<lvars, pvars, bvars, avars>>

\* if use_json { print!("{}\n", serde_json::to_string(&json_map).unwrap()); }
Json ==
    /\ pc = "json"
    /\ pc' = "done"
    /\ stdout' = IF use_json THEN Append(stdout, "json") ELSE stdout
    /\ UNCHANGED <<print_info, print_attrs, print_health, use_json, smart,
                   issued, stderr, json_map>>
    /\ UNCHANGED <<lvars, pvars, bvars, avars>>

NextQuery ==
    \/ Start
    \/ Identify
    \/ Info
    \/ Health
    \/ AttrsValues
    \/ AttrsThresholds
    \/ Json

SpecQuery == InitQuery /\ [][NextQuery]_vars

(***************************************************************************)
(* Device enumerator: list_devices                                         *)
(***************************************************************************)

\* bound: the number of entries of /sys/class/block
MaxBlock == 2

\* a device/generic link that cannot be read (no generic alias)
NoLink == <<>>

Digits == <<"0", "1", "2", "3">>

\* the name of the scsi_generic node of the k-th SCSI device: sg0, sg1, ..
GenericName(k) == <<"s", "g", Digits[k]>>

Letters == <<"a", "b", "c", "d">>

\* the name of the k-th block node of a driver: sda, sdb, .. or vda, vdb, ..
BlockName(prefix, k) == <<prefix, "d", Letters[k]>>

\* canonical paths (sequences of components below the root) of block nodes
PhysicalPath(name) == <<"sys", "devices", "pci0000:00", "host0", "block", name>>
VirtualPath(name) == <<"sys", "devices", "virtual", "block", name>>
FloppyPath(name) == <<"sys", "devices", "platform", "floppy.0", "block", name>>

\* lines of a uevent file as BufReader::lines yields them: Ok(text) or Err
Line(key, val) == [err |-> FALSE, key |-> key, val |-> val]
ReadError == [err |-> TRUE, key |-> "", val |-> ""]
Major == Line("MAJOR=", "8")
DevtypeDisk == Line("DEVTYPE=", "disk")
DevtypePartition == Line("DEVTYPE=", "partition")

\* what the host can hold for one block class entry, apart from its name
\* and its device/generic link:
\*   readable: the directory entry itself is Ok
\*   prefix:   first letter of the name
\*   canon:    "fail" (canonicalize fails) or the kind of canonical path
\*   driver:   "unreadable" or the file name of the device/driver link
\*   uevent_ok: whether File::open of the uevent file succeeds
\*   uevent:   the lines of the uevent file
BlockProfiles == {
    [readable |-> TRUE,  prefix |-> "s", canon |-> "physical", driver |-> "sd",
     uevent_ok |-> TRUE, uevent |-> <<Major, DevtypeDisk, DevtypePartition>>],
    [readable |-> FALSE, prefix |-> "s", canon |-> "physical", driver |-> "sd",
     uevent_ok |-> TRUE, uevent |-> <<DevtypeDisk>>],
    [readable |-> TRUE,  prefix |-> "s", canon |-> "fail", driver |-> "sd",
     uevent_ok |-> TRUE, uevent |-> <<DevtypeDisk>>],
    [readable |-> TRUE,  prefix |-> "s", canon |-> "virtual", driver |-> "sd",
     uevent_ok |-> TRUE, uevent |-> <<DevtypeDisk>>],
    [readable |-> TRUE,  prefix |-> "s", canon |-> "floppy", driver |-> "sd",
     uevent_ok |-> TRUE, uevent |-> <<DevtypeDisk>>],
    [readable |-> TRUE,  prefix |-> "v", canon |-> "physical", driver |-> "virtio_blk",
     uevent_ok |-> TRUE, uevent |-> <<DevtypeDisk>>],
    [readable |-> TRUE,  prefix |-> "v", canon |-> "physical", driver |-> "unreadable",
     uevent_ok |-> TRUE, uevent |-> <<DevtypeDisk>>],
    [readable |-> TRUE,  prefix |-> "s", canon |-> "physical", driver |-> "sd",
     uevent_ok |-> FALSE, uevent |-> <<DevtypeDisk>>],
    [readable |-> TRUE,  prefix |-> "s", canon |-> "physical", driver |-> "sd",
     uevent_ok |-> TRUE, uevent |-> <<Major, ReadError, DevtypeDisk>>],
    [readable |-> TRUE,  prefix |-> "s", canon |-> "physical", driver |-> "sd",
     uevent_ok |-> TRUE, uevent |-> <<DevtypePartition, DevtypeDisk>>],
    [readable |-> TRUE,  prefix |-> "s", canon |-> "physical", driver |-> "sd",
     uevent_ok |-> TRUE, uevent |-> <<Major>>] }

\* the k-th entry of /sys/class/block, of profile p, with device/generic link g
BlockEntry(p, g, k) ==
    LET name == BlockName(p.prefix, k) IN
    [readable |-> p.readable,
     name |-> name,
     canon_ok |-> p.canon # "fail",
     canon |-> CASE p.canon = "virtual" -> VirtualPath(name)
                 [] p.canon = "floppy" -> FloppyPath(name)
                 [] OTHER -> PhysicalPath(name),
     driver |-> p.driver,
     uevent_ok |-> p.uevent_ok,
     uevent |-> p.uevent,
     generic |-> g]

\* the states /sys/class/block can be in with up to max entries; the k-th
\* block node has no device/generic link or the link names the k-th
\* generic node, so that a generic node is the alias of one block node
BlockDirs(max) ==
    UNION { { [k \in 1..n |-> BlockEntry(ps[k], IF gs[k] THEN GenericName(k) ELSE NoLink, k)] :
                ps \in [1..n -> BlockProfiles], gs \in [1..n -> BOOLEAN] }
            : n \in 0..max }

\* what the host can hold for one entry of /sys/class/scsi_generic:
\* virtual tells whether the node's canonical path lies under
\* /sys/devices/virtual/ (list_devices never looks at it)
GenericEntries == {
    [readable |-> TRUE,  name |-> GenericName(1), virtual |-> FALSE],
    [readable |-> FALSE, name |-> GenericName(1), virtual |-> FALSE],
    [readable |-> TRUE,  name |-> GenericName(2), virtual |-> FALSE],
    [readable |-> TRUE,  name |-> GenericName(2), virtual |-> TRUE] }

\* the states /sys/class/scsi_generic can be in: names are unique
GenericDirs ==
    { <<>> } \cup { <<a>> : a \in GenericEntries }
             \cup { p \in GenericEntries \X GenericEntries : p[1].name # p[2].name }

\* Path::starts_with: whole components
PathStartsWith(path, prefix) ==
    /\ Len(path) >= Len(prefix)
    /\ SubSeq(path, 1, Len(prefix)) = prefix

\* path.starts_with("/sys/devices/virtual/")
IsVirtual(path) == PathStartsWith(path, <<"sys", "devices", "virtual">>)

\* component names that begin with the characters "floppy"
FloppyPrefixed == {"floppy", "floppy.0"}

\* path.to_str().unwrap().starts_with("/sys/devices/platform/floppy"):
\* a prefix of the string, so the fourth component need only begin with floppy
IsFloppy(path) ==
    /\ Len(path) >= 4
    /\ SubSeq(path, 1, 3) = <<"sys", "devices", "platform">>
    /\ path[4] \in FloppyPrefixed

\* name starts with 'v' and device/driver reads as a link to virtio_blk
IsVirtioBlk(e) ==
    /\ e.name[1] = "v"
    /\ e.driver # "unreadable"
    /\ e.driver = "virtio_blk"

\* UeventIsDisk with a fault: the scan of
\*   $ grep -q '^DEVTYPE=disk$' /sys/class/block/sda/uevent
\* which finds the line wherever it stands among the lines read
UeventIsDiskAnywhere(lines) ==
    \E n \in 1..Len(lines) : ~lines[n].err /\ lines[n].key = "DEVTYPE=" /\ lines[n].val = "disk"

\* the for loop over buf.lines(): the value of is_disk after it
RECURSIVE UeventIsDisk(_)
UeventIsDisk(lines) ==
    IF lines = <<>> THEN FALSE
    ELSE LET l == Head(lines) IN
         IF l.err THEN FALSE
         ELSE IF l.key = "DEVTYPE=" /\ l.val = "disk" THEN TRUE
         ELSE IF l.key = "DEVTYPE=" THEN FALSE
         ELSE UeventIsDisk(Tail(lines))

\* one iteration of the loop over /sys/class/block up to devices.push:
\* "skip" for every continue, "accept" when the push is reached
BlockVerdict(e) ==
    IF ~e.readable THEN "skip"
    ELSE IF ~e.canon_ok THEN "skip"
    ELSE IF IsVirtual(e.canon) THEN "skip"
    ELSE IF IsFloppy(e.canon) THEN "skip"
    ELSE IF IsVirtioBlk(e) THEN "skip"
    ELSE IF ~e.uevent_ok THEN "skip"
    ELSE IF ~UeventIsDisk(e.uevent) THEN "skip"
    ELSE "accept"

\* AfterSkip with a fault: break instead of continue
AfterSkipBreaks(i, n) == n + 1

\* continue: the loop goes on with the next entry of its n entries
AfterSkip(i, n) == i + 1

\* Push with a fault: the name is put in front
PushFront(list, name) == <<name>> \o list

\* devices.push(name)
Push(list, name) == Append(list, name)

\* SkipGenericsInsert with a fault: the alias is not recorded
SkipGenericsInsertNothing(skip, e) == skip

\* if let Ok(generic_path) = path.join("device/generic").read_link() {
\*     skip_generics.insert(generic_name) }
SkipGenericsInsert(skip, e) ==
    IF e.generic = NoLink THEN skip ELSE skip \cup {e.generic}

\* PathBuf::from(format!("/dev/{}", dev))
DevPath(name) == <<"dev">> \o <<name>>

\* the query sequencer is not running
IdleQuery ==
    /\ print_info = FALSE
    /\ print_attrs = FALSE
    /\ print_health = FALSE
    /\ use_json = FALSE
    /\ smart = "unknown"
    /\ issued = <<>>
    /\ stdout = <<>>
    /\ stderr = <<>>
    /\ json_map = {}

InitList ==
    /\ pc = "list_block"
    /\ block_root_ok \in BOOLEAN
    /\ generic_root_ok \in BOOLEAN
    \* a directory that cannot be listed shows no entries
    /\ block_dir \in IF block_root_ok THEN BlockDirs(MaxBlock) ELSE { <<>> }
    /\ generic_dir \in IF generic_root_ok THEN GenericDirs ELSE { <<>> }
    /\ idx = 0
    /\ devices = <<>>
    /\ skip_generics = {}
    /\ result = [kind |-> "none", paths |-> <<>>]
    /\ IdleQuery
    /\ IdleParse
    /\ IdleBackend
    /\ IdleClassify

\* for d in fs::read_dir("/sys/class/block")? { .. }
ListBlockRoot ==
    /\ pc = "list_block"
    /\ IF block_root_ok
       THEN /\ pc' = "scan_block"
            /\ idx' = 1
            /\ result' = result
       ELSE /\ pc' = "returned"
            /\ idx' = idx
            /\ result' = [kind |-> "Err", paths |-> <<>>]
    /\ UNCHANGED <<block_root_ok, generic_root_ok, block_dir, generic_dir,
                   devices, skip_generics>>
    /\ UNCHANGED <<qvars, pvars, bvars, avars>>

\* one iteration of the loop over /sys/class/block
ScanBlockEntry ==
    /\ pc = "scan_block"
    /\ idx <= Len(block_dir)
    /\ LET e == block_dir[idx] IN
       IF BlockVerdict(e) = "accept"
       THEN /\ devices' = Push(devices, e.name)
            /\ skip_generics' = SkipGenericsInsert(skip_generics, e)
            /\ idx' = idx + 1
       ELSE /\ idx' = AfterSkip(idx, Len(block_dir))
            /\ UNCHANGED <<devices, skip_generics>>
    /\ UNCHANGED <<pc, block_root_ok, generic_root_ok, block_dir, generic_dir, result>>
    /\ UNCHANGED <<qvars, pvars, bvars, avars>>

\* for d in fs::read_dir("/sys/class/scsi_generic")? { .. }
ListGenericRoot ==
    /\ pc = "scan_block"
    /\ idx > Len(block_dir)
    /\ IF generic_root_ok
       THEN /\ pc' = "scan_generic"
            /\ idx' = 1
            /\ result' = result
       ELSE /\ pc' = "returned"
            /\ idx' = idx
            /\ result' = [kind |-> "Err", paths |-> <<>>]
    /\ UNCHANGED <<block_root_ok, generic_root_ok, block_dir, generic_dir,
                   devices, skip_generics>>
    /\ UNCHANGED <<qvars, pvars, bvars, avars>>

\* one iteration of the loop over /sys/class/scsi_generic
ScanGenericEntry ==
    /\ pc = "scan_generic"
    /\ idx <= Len(generic_dir)
    /\ LET d == generic_dir[idx] IN
       IF ~d.readable
       THEN /\ idx' = AfterSkip(idx, Len(generic_dir))
            /\ devices' = devices
       ELSE /\ idx' = idx + 1
            /\ devices' = IF d.name \notin skip_generics
                          THEN Push(devices, d.name)
                          ELSE devices
    /\ UNCHANGED <<pc, block_root_ok, generic_root_ok, block_dir, generic_dir,
                   skip_generics, result>>
    /\ UNCHANGED <<qvars, pvars, bvars, avars>>

\* Ok(devices.into_iter().map(|dev| PathBuf::from(format!("/dev/{}", ..))).collect())
Return ==
    /\ pc = "scan_generic"
    /\ idx > Len(generic_dir)
    /\ pc' = "returned"
    /\ result' = [kind |-> "Ok",
                  paths |-> [k \in 1..Len(devices) |-> DevPath(devices[k])]]
    /\ UNCHANGED <<block_root_ok, generic_root_ok, block_dir, generic_dir, idx,
                   devices, skip_generics>>
    /\ UNCHANGED <<qvars, pvars, bvars, avars>>

NextList ==
    \/ ListBlockRoot
    \/ ScanBlockEntry
    \/ ListGenericRoot
    \/ ScanGenericEntry
    \/ Return

SpecList == InitList /\ [][NextList]_vars

(***************************************************************************)
(* Attribute presets: parse_vendor_attribute and parse                     *)
(***************************************************************************)

\* bound: the number of whitespace-separated tokens of the option stream
MaxTokens == 4

\* u8::MAX
U8Max == 255

DigitChars == <<"0", "1", "2", "3", "4", "5", "6", "7", "8", "9">>

\* nom::is_digit
IsDigit(c) == \E d \in 1..Len(DigitChars) : DigitChars[d] = c

\* the value of a decimal digit
DigitValue(c) == (CHOOSE d \in 1..Len(DigitChars) : DigitChars[d] = c) - 1

\* char::is_whitespace, for the characters of the model
IsWhitespace(c) == c \in {" ", "\t"}

\* the number of leading characters of s outside the set stop
RECURSIVE TillLen(_, _)
TillLen(s, stop) ==
    IF s = <<>> \/ Head(s) \in stop THEN 0 ELSE 1 + TillLen(Tail(s), stop)

\* nom::digit: the number of leading digits of s
RECURSIVE DigitsLen(_)
DigitsLen(s) ==
    IF s = <<>> \/ ~IsDigit(Head(s)) THEN 0 ELSE 1 + DigitsLen(Tail(s))

\* the number a string of decimal digits denotes
RECURSIVE Decimal(_)
Decimal(ds) ==
    IF ds = <<>> THEN 0
    ELSE 10 * Decimal(SubSeq(ds, 1, Len(ds) - 1)) + DigitValue(ds[Len(ds)])

\* s without its first n characters
Drop(s, n) == SubSeq(s, n + 1, Len(s))

\* line.split_whitespace(): the maximal runs of non-whitespace characters
RECURSIVE SplitWhitespace(_)
SplitWhitespace(s) ==
    IF s = <<>> THEN <<>>
    ELSE IF IsWhitespace(Head(s)) THEN SplitWhitespace(Tail(s))
    ELSE LET n == TillLen(s, {" ", "\t"})
         IN <<SubSeq(s, 1, n)>> \o SplitWhitespace(Drop(s, n))

\* the byte order a format stands for when none is given
DefaultByteOrder(format) ==
    IF format \in {<<"r", "a", "w", "6", "4">>, <<"h", "e", "x", "6", "4">>}
    THEN <<"5", "4", "3", "2", "1", "0", "w", "v">>
    ELSE IF format \in {<<"r", "a", "w", "5", "6">>, <<"h", "e", "x", "5", "6">>, <<"r", "a", "w", "2", "4", "/", "r", "a", "w", "3", "2">>, <<"m", "s", "e", "c", "2", "4", "h", "o", "u", "r", "3", "2">>}
    THEN <<"r", "5", "4", "3", "2", "1", "0">>
    ELSE <<"5", "4", "3", "2", "1", "0">>

\* Option::None for the name of an attribute (a name has a character at least)
NoName == <<>>

\* the result of the parser where it does not end in IResult::Done
Failure(kind) == [kind |-> kind, id |-> 0,
                  attr |-> [name |-> NoName, format |-> <<>>, byte_order |-> <<>>,
                            drivetype |-> "None"]]

\* ParseId as the comment in the source proposes it (map_res!): parse::<u8>
\* failing is an error of the parser.  With it in place of ParseId the
\* statements of C8, C9 and C10 below hold.
ParseIdMapRes(digits) ==
    IF Decimal(digits) > U8Max THEN [kind |-> "Error", id |-> 0]
    ELSE [kind |-> "Done", id |-> Decimal(digits)]

\* map!(digit, |x| str::from_utf8(x).unwrap().parse::<u8>().unwrap()):
\* parse::<u8> is Err for a number above u8::MAX and unwrap panics on it
ParseId(digits) ==
    IF Decimal(digits) > U8Max THEN [kind |-> "Panic", id |-> 0]
    ELSE [kind |-> "Done", id |-> Decimal(digits)]

\* opt!(do_parse!(char!(':') >> take_till1_s!(not_comma))): the number of
\* characters the optional byte order takes from s, the colon included
ByteOrderLen(s) ==
    IF s # <<>> /\ Head(s) = ":" /\ TillLen(Tail(s), {","}) >= 1
    THEN 1 + TillLen(Tail(s), {","})
    ELSE 0

\* opt!(do_parse!(char!(',') >> take_till1_s!(not_comma) >> ..)): the number
\* of characters the optional name takes from s, the comma included
NameLen(s) ==
    IF s # <<>> /\ Head(s) = "," /\ TillLen(Tail(s), {","}) >= 1
    THEN 1 + TillLen(Tail(s), {","})
    ELSE 0

\* opt!(do_parse!(char!(',') >> alt!(tag!("HDD") | tag!("SSD")))): the drive
\* type at the head of s, "None" when the optional part does not match
DriveType(s) ==
    IF Len(s) >= 4 /\ SubSeq(s, 1, 4) = <<",", "H", "D", "D">> THEN "HDD"
    ELSE IF Len(s) >= 4 /\ SubSeq(s, 1, 4) = <<",", "S", "S", "D">> THEN "SSD"
    ELSE "None"

\* parse_vendor_attribute(value): kind is "Done", "Error" (IResult::Error or
\* IResult::Incomplete: parse treats them alike) or "Panic".  The input is
\* the whole specification: an optional part that meets its end is absent.
ParseVendorAttribute(value) ==
    LET n == DigitsLen(value) IN
    IF n = 0 THEN Failure("Error")
    ELSE
    LET idr == ParseId(SubSeq(value, 1, n))
        r1 == Drop(value, n)
    IN
    IF idr.kind # "Done" THEN Failure(idr.kind)
    ELSE IF r1 = <<>> \/ Head(r1) # "," THEN Failure("Error")
    ELSE
    LET r2 == Tail(r1)
        f == TillLen(r2, {",", ":"})
    IN
    IF f = 0 THEN Failure("Error")
    ELSE
    LET format == SubSeq(r2, 1, f)
        r3 == Drop(r2, f)
        b == ByteOrderLen(r3)
        r4 == Drop(r3, b)
        m == NameLen(r4)
        r5 == Drop(r4, m)
        dt == IF m = 0 THEN "None" ELSE DriveType(r5)
        r6 == IF dt = "None" THEN r5 ELSE Drop(r5, 4)
    IN
    IF r6 # <<>> THEN Failure("Error")
    ELSE [kind |-> "Done",
          id |-> idr.id,
          attr |-> [name |-> IF m = 0 THEN NoName ELSE SubSeq(r4, 2, m),
                    format |-> format,
                    byte_order |-> IF b = 0 THEN DefaultByteOrder(format)
                                   ELSE SubSeq(r3, 2, b),
                    drivetype |-> dt]]

\* output.insert(id, attr) on a HashMap: the entry of id is set or replaced
Insert(table, id, attr) ==
    [k \in (DOMAIN table) \cup {id} |-> IF k = id THEN attr ELSE table[k]]

\* the preset option
OptV == <<"-", "v">>

\* tokens an option stream is made of
Tokens == {
    OptV,
    <<"-", "x">>,
    <<"1", ",", "r", "a", "w", "4", "8">>,
    <<"1", ",", "h", "e", "x", "6", "4">>,
    <<"2", ",", "r", "a", "w", "1", "6", ":", "1", "0", ",", "N", "m">>,
    <<"2", ",", "r", "a", "w", "5", "6", ",", "N", "m", ",", "S", "S", "D">>,
    <<"2", ",", "r", "a", "w", "1", "6", ",", "N", "m", ",", "S", "S", "D", ",", "x">>,
    <<"2", "5", "6", ",", "r", "a", "w", "4", "8">> }

\* the tokens joined by the separator sep
RECURSIVE Join(_, _)
Join(toks, sep) ==
    IF toks = <<>> THEN <<>>
    ELSE IF Len(toks) = 1 THEN toks[1]
    ELSE toks[1] \o sep \o Join(Tail(toks), sep)

\* option streams of up to max tokens, separated by a blank, or by a tab and
\* a blank with a blank before and after the stream
Lines(max) ==
    UNION { { Join(toks, <<" ">>) : toks \in [1..n -> Tokens] }
              \cup { <<" ">> \o Join(toks, <<"\t", " ">>) \o <<" ">> : toks \in [1..n -> Tokens] }
            : n \in 0..max }

InitParse ==
    /\ pc = "parse"
    /\ line \in Lines(MaxTokens)
    /\ args = <<>>
    /\ output = <<>>
    /\ parsed = [kind |-> "none", table |-> <<>>]
    /\ IdleQuery
    /\ IdleList
    /\ IdleBackend
    /\ IdleClassify

\* let mut args = line.split_whitespace().into_iter();
\* let mut output = Preset::new();
SplitLine ==
    /\ pc = "parse"
    /\ args' = SplitWhitespace(line)
    /\ output' = <<>>
    /\ pc' = "loop"
    /\ UNCHANGED <<line, parsed>>
    /\ UNCHANGED <<qvars, lvars, bvars, avars>>

\* match args.next() { None => return Some(output), .. }
ReturnSome ==
    /\ pc = "loop"
    /\ args = <<>>
    /\ parsed' = [kind |-> "Some", table |-> output]
    /\ pc' = "returned"
    /\ UNCHANGED <<line, args, output>>
    /\ UNCHANGED <<qvars, lvars, bvars, avars>>

\* Some(key) => match args.next() { None => return None, .. }
ReturnNone ==
    /\ pc = "loop"
    /\ Len(args) = 1
    /\ parsed' = [kind |-> "None", table |-> <<>>]
    /\ args' = <<>>
    /\ pc' = "returned"
    /\ UNCHANGED <<line, output>>
    /\ UNCHANGED <<qvars, lvars, bvars, avars>>

\* Some(value) => match key { "-v" => match parse_vendor_attribute(..) { .. },
\*                            _ => continue }
ScanPair ==
    /\ pc = "loop"
    /\ Len(args) >= 2
    /\ args' = Drop(args, 2)
    /\ IF args[1] = OptV
       THEN LET r == ParseVendorAttribute(args[2]) IN
            /\ pc' = IF r.kind = "Panic" THEN "panicked" ELSE "loop"
            /\ output' = IF r.kind = "Done" THEN Insert(output, r.id, r.attr) ELSE output
       ELSE UNCHANGED <<pc, output>>
    /\ UNCHANGED <<line, parsed>>
    /\ UNCHANGED <<qvars, lvars, bvars, avars>>

NextParse ==
    \/ SplitLine
    \/ ReturnSome
    \/ ReturnNone
    \/ ScanPair

SpecParse == InitParse /\ [][NextParse]_vars

(***************************************************************************)
(* Backend selection: the start of main                                    *)
(***************************************************************************)

\* the systems the program is built for
TargetSystems == {"linux", "freebsd"}

\* fn types(): the values -d/--device may take
Types(os) == IF os = "linux" THEN {"ata", "sat"} ELSE {"ata"}

\* what a user may give to -d/--device
TypeValues == {None, Some("ata"), Some("sat"), Some("nvme")}

\* what a user may give as the device to query
DeviceValues == {Some("/dev/sda"), Some("/dev/sdb"), Some("/dev/sg0"),
                 Some("/dev/ada0"), Some("ata"), Some("sat")}

\* args.value_of(name), for the arguments "type" and "device"
ValueOf(name) == IF name = "type" THEN dev_type ELSE device

\* the match that yields (exec, task): of is the value matched on
\*   Some("ata") if cfg!(target_os = "linux") => (ata::ata_exec, ata::ata_task)
\*   _ if cfg!(target_os = "linux") => (scsi::ata_pass_through_16_exec, ..)
\*   _ => unreachable!()
MatchBackend(of, os) ==
    IF of = Some("ata") /\ os = "linux" THEN "ata"
    ELSE IF os = "linux" THEN "sat"
    ELSE "unreachable"

InitBackend ==
    /\ pc = "get_matches"
    /\ target_os \in TargetSystems
    /\ dev_type \in TypeValues
    /\ device \in DeviceValues
    /\ backend = "none"
    /\ IdleQuery
    /\ IdleList
    /\ IdleParse
    /\ IdleClassify

\* App::new(..)...get_matches(): a value of -d outside possible_values ends
\* the program with a usage error
GetMatches ==
    /\ pc = "get_matches"
    /\ pc' = IF dev_type = None \/ (\E t \in Types(target_os) : dev_type = Some(t))
             THEN "select"
             ELSE "exited"
    /\ UNCHANGED <<qvars, lvars, pvars, bvars, avars>>

\* let (exec, task) = match args.value_of("device") { .. };
SelectBackend ==
    /\ pc = "select"
    /\ LET b == MatchBackend(ValueOf("device"), target_os) IN
       IF b = "unreachable"
       THEN /\ pc' = "panicked"
            /\ backend' = backend
       ELSE /\ pc' = "selected"
            /\ backend' = b
    /\ UNCHANGED <<target_os, dev_type, device>>
    /\ UNCHANGED <<qvars, lvars, pvars, avars>>

NextBackend ==
    \/ GetMatches
    \/ SelectBackend

SpecBackend == InitBackend /\ [][NextBackend]_vars

(***************************************************************************)
(* Attribute classification: the fail column of print_attributes           *)
(***************************************************************************)

\* the largest normalised value drawn for value, worst and thresh (each a u8)
MaxValue == 3

\* Option<u8>, with values up to max
OptionU8(max) == {None} \cup {Some(v) : v \in 0..max}

\* the attributes print_attributes may be handed, by value, worst and thresh
Attributes(max) == [value : OptionU8(max), worst : OptionU8(max), thresh : OptionU8(max)]

\* the match on (val.value, val.worst, val.thresh) with the arms in the order
\* "past" before "NOW "
FailColumnPastFirst(v) ==
    IF v.worst # None /\ v.thresh # None /\ v.worst[1] <= v.thresh[1] THEN "past"
    ELSE IF v.value # None /\ v.thresh # None /\ v.value[1] <= v.thresh[1] THEN "NOW "
    ELSE "-   "

\* match (val.value, val.worst, val.thresh) {
\*     (Some(v), _, Some(t)) if v <= t => "NOW ",
\*     (_, Some(w), Some(t)) if w <= t => "past",
\*     _ => "-   ",
\* }
FailColumn(v) ==
    IF v.value # None /\ v.thresh # None /\ v.value[1] <= v.thresh[1] THEN "NOW "
    ELSE IF v.worst # None /\ v.thresh # None /\ v.worst[1] <= v.thresh[1] THEN "past"
    ELSE "-   "

InitClassify ==
    /\ pc = "print_row"
    /\ attr_val \in Attributes(MaxValue)
    /\ fail = ""
    /\ IdleQuery
    /\ IdleList
    /\ IdleParse
    /\ IdleBackend

\* one turn of the loop over values: the row of val is printed, with its
\* fail column
PrintRow ==
    /\ pc = "print_row"
    /\ fail' = FailColumn(attr_val)
    /\ pc' = "row_printed"
    /\ UNCHANGED attr_val
    /\ UNCHANGED <<qvars, lvars, pvars, bvars>>

NextClassify == PrintRow

SpecClassify == InitClassify /\ [][NextClassify]_vars

(***************************************************************************)
(* Properties of the query sequencer                                       *)
(***************************************************************************)

\* the commands issued so far
IssuedSet == {issued[k] : k \in 1..Len(issued)}

\* the notices warned so far
StderrSet == {stderr[k] : k \in 1..Len(stderr)}

\* main is past the health section / past the attributes section
PastHealth == pc \in {"attrs_values", "attrs_thresh", "json", "done"}
PastAttrs == pc \in {"json", "done"}

\* the notice when_smart_enabled is to emit for a section in a capability state
Notice(state, section) ==
    IF state = "Unsupported"
    THEN <<"S.M.A.R.T. is not supported, cannot show", section>>
    ELSE <<"S.M.A.R.T. is disabled, cannot show", section>>

\* C1: when the S.M.A.R.T. capability state decoded from the identification
\* response is Unsupported or Disabled, no command of a requested section
\* (health: the status-block command; attributes: the values and thresholds
\* commands) is issued and a notice naming the section is emitted instead;
\* section commands are issued only when the state is Enabled.
C1_CapabilityGating ==
    /\ (IssuedSet \cap (HealthCommands \cup AttrsCommands) # {}) => smart = "Enabled"
    /\ smart \in {"Unsupported", "Disabled"} =>
         /\ IssuedSet \subseteq {CmdIdentify}
         /\ (print_health /\ PastHealth) => Notice(smart, HealthName) \in StderrSet
         /\ (print_attrs /\ PastAttrs) => Notice(smart, AttrsName) \in StderrSet
    /\ smart = "Enabled" => stderr = <<>>

\* witness of C1: both sections were requested of a device with S.M.A.R.T.
\* disabled; only the identification was issued and two notices were emitted
C1_Witness ==
    /\ pc = "done"
    /\ smart = "Disabled"
    /\ print_health /\ print_attrs
    /\ issued = <<CmdIdentify>>
    /\ stderr = << <<"S.M.A.R.T. is disabled, cannot show", "health status">>,
                   <<"S.M.A.R.T. is disabled, cannot show", "attributes">> >>

\* C2 as stated: every invocation, whatever sections it requests (the empty
\* set included), issues the identification command, and issues it first.
C2_AlwaysIdentifies ==
    pc \notin {"start", "identify"} =>
        /\ Len(issued) >= 1
        /\ issued[1] = CmdIdentify

\* C2 amended: an invocation that requests at least one section issues the
\* identification command and issues it first; no other command is issued
\* before the identification has completed; an invocation that requests no
\* section issues no command at all.
C2_IdentifiesFirstWhenRequested ==
    /\ (print_info \/ print_attrs \/ print_health) /\ pc \notin {"start", "identify"} =>
         /\ Len(issued) >= 1
         /\ issued[1] = CmdIdentify
    /\ issued # <<>> => issued[1] = CmdIdentify
    /\ \A k \in 2..Len(issued) : issued[k] # CmdIdentify /\ smart \in Ternary
    /\ ~(print_info \/ print_attrs \/ print_health) => issued = <<>>

\* witness of C2: only the health section was requested; the identification
\* was issued first and the status command after it
C2_Witness ==
    /\ pc = "done"
    /\ print_health /\ ~print_info /\ ~print_attrs
    /\ issued = <<CmdIdentify, CmdReturnStatus>>

\* C3: once an executor call has returned an I/O error, no further command
\* is issued, the failed command is not retried, and no section's output
\* (text or JSON) has been emitted for the invocation.
C3_NoPartialReport ==
    pc = "panicked" =>
        /\ stdout = <<>>
        /\ ~ENABLED NextQuery

(***************************************************************************)
(* Properties of the device enumerator                                     *)
(***************************************************************************)

\* list_devices has returned Ok(paths)
ReturnedOk == pc = "returned" /\ result.kind = "Ok"

\* the paths returned, as a set
ResultPaths == {result.paths[k] : k \in 1..Len(result.paths)}

\* the device file of a name
DevFile(name) == <<"dev", name>>

\* a line equal to DEVTYPE=disk is read before any other DEVTYPE= line and
\* before any read error
DiskLineFirst(lines) ==
    \E n \in 1..Len(lines) :
        /\ lines[n] = [err |-> FALSE, key |-> "DEVTYPE=", val |-> "disk"]
        /\ \A m \in 1..(n - 1) : ~lines[m].err /\ lines[m].key # "DEVTYPE="

\* a block class entry that the filters of step 1 are to let through
GenuineDisk(e) ==
    /\ e.readable
    /\ e.canon_ok
    /\ e.canon[3] # "virtual"
    /\ ~(e.canon[3] = "platform" /\ e.canon[4] \in {"floppy", "floppy.0"})
    /\ ~(e.name[1] = "v" /\ e.driver = "virtio_blk")
    /\ e.uevent_ok
    /\ DiskLineFirst(e.uevent)

\* the generic names that genuine disks of the block tree point at
AliasedGenerics ==
    {block_dir[k].generic : k \in {n \in 1..Len(block_dir) : GenuineDisk(block_dir[n])}}
        \ {NoLink}

\* C4: the returned list never holds the same device twice: no path occurs
\* twice, and a device listed as a block node whose device/generic alias
\* names a generic-SCSI entry is not listed again under the alias.
C4_NoDuplicateDevice ==
    ReturnedOk =>
        /\ \A a, b \in 1..Len(result.paths) : a # b => result.paths[a] # result.paths[b]
        /\ \A k \in 1..Len(block_dir) :
             (DevFile(block_dir[k].name) \in ResultPaths /\ block_dir[k].generic # NoLink)
                 => DevFile(block_dir[k].generic) \notin ResultPaths

\* witness of C4: an accepted block node has an alias that is listed,
\* readable, in the generic-SCSI tree; the block node is returned, the alias not
C4_Witness ==
    /\ ReturnedOk
    /\ \E k \in 1..Len(block_dir), j \in 1..Len(generic_dir) :
         /\ generic_dir[j].readable
         /\ generic_dir[j].name = block_dir[k].generic
         /\ DevFile(block_dir[k].name) \in ResultPaths
         /\ DevFile(generic_dir[j].name) \notin ResultPaths
         /\ Len(result.paths) = 2

\* C5: no returned path names a device whose canonical path lies under
\* /sys/devices/virtual/ or begins with /sys/devices/platform/floppy,
\* whether it came from the block tree or from the generic-SCSI tree.
C5_NoVirtualOrFloppy ==
    ReturnedOk =>
        /\ \A k \in 1..Len(block_dir) :
             (DevFile(block_dir[k].name) \in ResultPaths /\ block_dir[k].canon_ok) =>
                 /\ block_dir[k].canon[3] # "virtual"
                 /\ ~(block_dir[k].canon[3] = "platform"
                        /\ block_dir[k].canon[4] \in {"floppy", "floppy.0"})
        /\ \A j \in 1..Len(generic_dir) :
             DevFile(generic_dir[j].name) \in ResultPaths => ~generic_dir[j].virtual

BlockIndex(path) ==
    IF \E k \in 1..Len(block_dir) : DevFile(block_dir[k].name) = path
    THEN CHOOSE k \in 1..Len(block_dir) : DevFile(block_dir[k].name) = path
    ELSE 0
GenericIndex(path) ==
    IF \E j \in 1..Len(generic_dir) : DevFile(generic_dir[j].name) = path
    THEN CHOOSE j \in 1..Len(generic_dir) : DevFile(generic_dir[j].name) = path
    ELSE 0

\* C7: the returned list is order-stable: the accepted block entries come
\* first, in the traversal order of the block tree, then the accepted
\* generic-only entries in the traversal order of the generic-SCSI tree; a
\* genuine disk without alias and an unrelated readable generic entry both
\* appear.
C7_OrderStable ==
    ReturnedOk =>
        /\ \A a \in 1..Len(result.paths) :
             BlockIndex(result.paths[a]) > 0 \/ GenericIndex(result.paths[a]) > 0
        /\ \A a, b \in 1..Len(result.paths) :
             a < b =>
               LET pa == result.paths[a]
                   pb == result.paths[b]
               IN /\ ~(GenericIndex(pa) > 0 /\ BlockIndex(pb) > 0)
                  /\ (BlockIndex(pa) > 0 /\ BlockIndex(pb) > 0)
                        => BlockIndex(pa) < BlockIndex(pb)
                  /\ (GenericIndex(pa) > 0 /\ GenericIndex(pb) > 0)
                        => GenericIndex(pa) < GenericIndex(pb)
        /\ \A k \in 1..Len(block_dir), j \in 1..Len(generic_dir) :
             (/\ GenuineDisk(block_dir[k]) /\ block_dir[k].generic = NoLink
              /\ generic_dir[j].readable /\ generic_dir[j].name \notin AliasedGenerics)
             => \E a, b \in 1..Len(result.paths) :
                  /\ a < b
                  /\ result.paths[a] = DevFile(block_dir[k].name)
                  /\ result.paths[b] = DevFile(generic_dir[j].name)

\* witness of C7: two genuine disks without alias and two generic entries,
\* all four returned, block nodes first
C7_Witness ==
    /\ ReturnedOk
    /\ Len(block_dir) = 2 /\ Len(generic_dir) = 2
    /\ block_dir[1].generic = NoLink /\ block_dir[2].generic = NoLink
    /\ result.paths = <<DevFile(block_dir[1].name), DevFile(block_dir[2].name),
                        DevFile(generic_dir[1].name), DevFile(generic_dir[2].name)>>

(***************************************************************************)
(* Properties of the option-stream parser                                  *)
(***************************************************************************)

\* the tokens of the option stream
StreamTokens == SplitWhitespace(line)

\* the number of (option, value) pairs the scan has consumed
PairsConsumed == IF pc = "parse" THEN 0 ELSE (Len(StreamTokens) - Len(args)) \div 2

\* parse has come to its end, one way or another
ParseEnded == pc \in {"returned", "panicked"}

\* the identifier of a specification is a string of digits whose value is
\* outside 0..255
OutOfRangeId(value) ==
    /\ DigitsLen(value) >= 1
    /\ Decimal(SubSeq(value, 1, DigitsLen(value))) > 255

\* the specification passes the single-specification grammar
GrammarAccepts(value) ==
    /\ ~OutOfRangeId(value)
    /\ ParseVendorAttribute(value).kind = "Done"

\* the table a left to right scan of the pairs builds: for every identifier
\* the last valid -v specification that names it
ExpectedTable(toks) ==
    LET valid == {k \in 1..(Len(toks) \div 2) :
                     toks[2 * k - 1] = OptV /\ GrammarAccepts(toks[2 * k])}
        IdOf(k) == ParseVendorAttribute(toks[2 * k]).id
        Last(i) == CHOOSE k \in valid :
                     /\ IdOf(k) = i
                     /\ \A j \in valid : IdOf(j) = i => j <= k
    IN [i \in {IdOf(k) : k \in valid} |-> ParseVendorAttribute(toks[2 * Last(i)]).attr]

\* C8: parse returns no table exactly when the stream has an odd number of
\* tokens (a dangling option); in every other case, malformed -v values
\* included, it returns a table.
C8_FailsExactlyOnDangling ==
    ParseEnded =>
        IF Len(StreamTokens) % 2 = 1
        THEN parsed.kind = "None"
        ELSE parsed.kind = "Some"

\* C9: for a stream with an even number of tokens parse returns the table of
\* the left to right scan: valid -v pairs insert or replace, other options
\* and malformed -v values are skipped and the scan goes on.
C9_TableIsLeftToRightScan ==
    (ParseEnded /\ Len(StreamTokens) % 2 = 0) =>
        /\ parsed.kind = "Some"
        /\ parsed.table = ExpectedTable(StreamTokens)

\* C10: a -v specification whose identifier is out of range is an ordinary
\* parse failure: the program is not aborted, no entry is made for it (none
\* with a wrapped or truncated identifier either) and the scan goes on.
C10_OutOfRangeIsParseFailure ==
    (\E k \in 1..PairsConsumed :
        StreamTokens[2 * k - 1] = OptV /\ OutOfRangeId(StreamTokens[2 * k]))
    => /\ pc \in {"loop", "returned"}
       /\ output = ExpectedTable(SubSeq(StreamTokens, 1, 2 * PairsConsumed))

(***************************************************************************)
(* Properties of the backend selection                                     *)
(***************************************************************************)

\* C11: on Linux the direct ATA backend is selected exactly when the device
\* type requested with -d/--device is ata, the SCSI ATA pass-through backend
\* otherwise (type sat or none); the device path has no part in the choice;
\* an unsupported combination ends the program before any command is issued.
C11_BackendFollowsDeviceType ==
    /\ (pc = "selected" /\ target_os = "linux") =>
          backend = IF dev_type = Some("ata") THEN "ata" ELSE "sat"
    /\ pc \in {"exited", "panicked"} => (backend = "none" /\ issued = <<>>)

(***************************************************************************)
(* Properties of the attribute classification                              *)
(***************************************************************************)

\* value and threshold are both known and value <= threshold
ValueAtOrBelowThreshold ==
    /\ Len(attr_val.value) = 1
    /\ Len(attr_val.thresh) = 1
    /\ attr_val.value[1] <= attr_val.thresh[1]

\* worst and threshold are both known and worst <= threshold
WorstAtOrBelowThreshold ==
    /\ Len(attr_val.worst) = 1
    /\ Len(attr_val.thresh) = 1
    /\ attr_val.worst[1] <= attr_val.thresh[1]

\* C12: for every combination of optional value, worst and threshold the
\* fail column reads NOW if value and threshold are known and value <=
\* threshold; otherwise past if worst and threshold are known and worst <=
\* threshold; otherwise "-".  NOW wins when both comparisons hold, and an
\* unknown threshold always gives "-".
C12_Classification ==
    pc = "row_printed" =>
        /\ fail \in {"NOW ", "past", "-   "}
        /\ fail = "NOW " <=> ValueAtOrBelowThreshold
        /\ fail = "past" <=> (~ValueAtOrBelowThreshold /\ WorstAtOrBelowThreshold)
        /\ fail = "-   " <=> (~ValueAtOrBelowThreshold /\ ~WorstAtOrBelowThreshold)
        /\ (ValueAtOrBelowThreshold /\ WorstAtOrBelowThreshold) => fail = "NOW "
        /\ attr_val.thresh = <<>> => fail = "-   "

\* witness of C12: a printed row whose value and worst are both at or below
\* the threshold, value strictly above worst, and which reads NOW
C12_Witness ==
    /\ pc = "row_printed"
    /\ ValueAtOrBelowThreshold
    /\ WorstAtOrBelowThreshold
    /\ attr_val.worst[1] < attr_val.value[1]
    /\ fail = "NOW "

(***************************************************************************)
(* Properties of the device-type scan of the enumerator                    *)
(***************************************************************************)

\* the k-th entry of the block tree has been through the loop
BlockEntryScanned(k) ==
    /\ k \in 1..Len(block_dir)
    /\ \/ pc = "scan_block" /\ k < idx
       \/ pc = "scan_generic"
       \/ pc = "returned" /\ block_root_ok

\* entry e got past the path filters (canonical path, virtual, floppy) and
\* the driver filter (virtio_blk)
PassedPathAndDriverFilters(e) ==
    /\ e.readable
    /\ e.canon_ok
    /\ e.canon[3] # "virtual"
    /\ ~(e.canon[3] = "platform" /\ e.canon[4] \in {"floppy", "floppy.0"})
    /\ ~(e.name[1] = "v" /\ e.driver = "virtio_blk")

\* the names pushed to devices so far
DeviceNames == {devices[n] : n \in 1..Len(devices)}

====
